---- MODULE Spec2Model ----
(***************************************************************************)
(* State-machine model of the o11y client (client.go): NewClient, the     *)
(* producer-side SendJSON / Close, the Dispatcher loop run() with         *)
(* preClose / writeOne / warnError / flushBuffer, and the Transmitter     *)
(* sendPayload; plus cutPoint (json.go) on a buffer of complete lines,     *)
(* cutPoint and flushBuffer on bytes, and the FakeClock (Sleep, Now,       *)
(* NewTicker, Stop).                                                       *)
(***************************************************************************)
EXTENDS Integers, Sequences, FiniteSets, TLC

\* ---------------------------------------------------------------- bounds
QueueCap == 1            \* capacity K of the backlog channel c.boop
MaxAccepted == 3         \* number of events accepted over one client's life
MaxRetries == 2          \* largest nRetries the running client is configured with
LiveAccepted == 1        \* events accepted in the runs checked for progress
TimerAccepted == 2       \* events accepted in the runs checked for timer delivery
MaxTail == 3             \* bytes a cut buffer extends beyond maxSize
MaxNow == 3              \* no clock call starts that would end after this time
MaxTickers == 2          \* tickers ever created on one FakeClock

\* ------------------------------------------------------ program constants
SizeMargin == 128
MinMaxSize == 4096
MaxNumRetries == 10
MaxSleepRetries == 6
SleepQuantaMs == 250
verbosity == 5
CutFloor == 32

\* WithMaxSize clamps to MinMaxSize from below; the model runs the client
\* with the smallest legal buffer size.
maxSize == MinMaxSize

Producers == {"p1", "p2"}
Closers == {"c1", "c2"}
Dispatcher == "run"

\* verbosity arguments passed to SendJSON: at the threshold and just above
Verbosities == {verbosity, verbosity + 1}

\* Payloads a producer may pass.  "s" and "h" are JSON-marshalable values, a
\* small one and one whose envelope alone exceeds maxSize; "ch" is a value
\* json.Encoder rejects (a channel).
Marshalable == {"s", "h"}
Payloads == Marshalable \cup {"ch"}

\* %T of a payload, as warnError computes it
TypeName(d) == IF d = "ch" THEN "chan int" ELSE "map[string]interface {}"

\* Responses one HTTP attempt can produce
Responses == {"neterr", "badbody", "nack", "ack"}

\* One line of the newline-delimited buffer.  act is the Action tag, d the
\* payload ("" when omitted), bad is TRUE for a BadType placeholder.
Line(act, d, bad) == [act |-> act, d |-> d, bad |-> bad]

\* Serialized length in bytes of one envelope line, trailing '\n' included
LineSize(l) ==
    IF l.bad THEN 180
    ELSE IF l.act # "data" THEN 100
    ELSE IF l.d = "s" THEN 1900
    ELSE 5000

RECURSIVE BufLen(_)
BufLen(b) == IF b = <<>> THEN 0 ELSE LineSize(Head(b)) + BufLen(Tail(b))

\* ------------------------------------------------------------- cutPoint
\* Index (0-based) of the '\n' that ends line k of data
NewlineAt(data, k) == BufLen(SubSeq(data, 1, k)) - 1

SplitAfter(data, k) == <<SubSeq(data, 1, k), SubSeq(data, k + 1, Len(data))>>

cutPoint(data, max) ==
    IF max < CutFloor \/ data = <<>> THEN <<data, <<>>>>
    ELSE IF BufLen(data) > max
    THEN LET back == {k \in 1..Len(data) :
                         /\ NewlineAt(data, k) <= max
                         /\ NewlineAt(data, k) > max \div 2}
             fwd  == {k \in 1..Len(data) : NewlineAt(data, k) >= max}
         IN IF back # {}
            THEN SplitAfter(data, CHOOSE k \in back : \A j \in back : j <= k)
            ELSE IF fwd # {}
            THEN SplitAfter(data, CHOOSE k \in fwd : \A j \in fwd : k <= j)
            ELSE <<data, <<>>>>
    ELSE <<data, <<>>>>

\* ----------------------------------------------------- cutPoint on bytes
\* A byte slice, by its length and the indices (0-based) of its '\n' bytes;
\* cutPoint looks at no other property of a byte.
NoBytes == [len |-> 0, nl |-> {}]

\* data[a:b]
Slice(data, a, b) ==
    [len |-> b - a, nl |-> {i - a : i \in {j \in data.nl : a <= j /\ j < b}}]

\* x followed by y
Concat(x, y) == [len |-> x.len + y.len, nl |-> x.nl \cup {i + x.len : i \in y.nl}]

\* A cut that leaves the line terminator at the front of the tail
SplitAtByte_Before(data, i) == <<Slice(data, 0, i), Slice(data, i, data.len)>>

\* `return data[:i+1], data[i+1:]`
SplitAtByte(data, i) == <<Slice(data, 0, i + 1), Slice(data, i + 1, data.len)>>

\* cutPoint(data, maxSize) of json.go; a nil slice is the slice of length 0
cutPointBytes(data, max) ==
    IF max < CutFloor THEN <<data, NoBytes>>
    ELSE IF data.len > max
    THEN LET back == {i \in (max \div 2 + 1)..max : i \in data.nl}
             fwd  == {i \in max..(data.len - 1) : i \in data.nl}
         IN IF back # {}
            THEN SplitAtByte(data, CHOOSE i \in back : \A j \in back : j <= i)
            ELSE IF fwd # {}
            THEN SplitAtByte(data, CHOOSE i \in fwd : \A j \in fwd : i <= j)
            ELSE <<data, NoBytes>>
    ELSE <<data, NoBytes>>

\* maxSize arguments handed to cutPoint: around the floor, and the client's
CutSizes == {CutFloor - 1, CutFloor, CutFloor + 1, maxSize}

\* Buffer lengths tried with maxSize m: empty, exactly m, a little more
\* than m, and more than twice m
CutLens(m) == {0, m, 2 * m + 2} \cup ((m + 1)..(m + MaxTail))

\* Indices at which a '\n' is placed: the ends of both search windows of
\* the first and of a second cut, and the last byte
CutNewlines(m, len) ==
    {i \in {m \div 2, m \div 2 + 1, m - 1, m, m + 1, 2 * m, 2 * m + 1, len - 1} :
        0 <= i /\ i < len}

\* ------------------------------------------------------------ FakeClock
\* Goroutines that call Sleep and Now on the clock
ClockCallers == {"a", "b"}

\* Identities of the fakeTicker objects, in order of creation
TickerIds == 1..MaxTickers

\* Ticker periods and sleep durations, in milliseconds
Periods == {1, 2}
Durations == {0, 3}

\* time.Millisecond, the sleep inside Now()
NowSleep == 1

NewTk == [st |-> "free", d |-> 0, next |-> 0, c |-> 0]
NoCall == [op |-> "none", d |-> 0, until |-> 0, e |-> 0, n |-> 0, ret |-> 0]
\* lastTick: the due time of the tick, the ticker it was offered to, and
\* for each ticker the latest due time offered to it before
NoTick == [due |-> 0, t |-> 0, max |-> [i \in TickerIds |-> 0]]

\* ---------------------------------------------------------------- state
VARIABLES
    checkConnect,   \* option: connectivity probe enabled
    nRetries,       \* option: attempts per sendPayload
    urlOk,          \* whether c.url parses (fixPath)
    cap,            \* number of events the producers offer in this run
    npc,            \* position of NewClient: "start", "probe", "returned", "failed"
    allowWrite,     \* c.allowWrite
    busy,           \* c.busy
    boop,           \* contents of channel c.boop
    boopClosed,     \* channel c.boop has been closed
    done,           \* field c.done: "chan" or "nil"
    doneClosed,     \* the done channel has been closed
    mu,             \* holder of c.mu, or "free"
    wg,             \* c.wg counter
    buffer,         \* c.buffer as a sequence of lines
    warnedType,     \* c.warnedType
    ctxDone,        \* ctx has been cancelled
    tickerOn,       \* the flush ticker is registered
    tick,           \* a tick is waiting in tkr.Chan()
    dpc,            \* position of run()
    runDone,        \* run()'s local done: "chan" or "nil"
    flushFrom,      \* who called flushBuffer: "none", "writeOne", "tick", "closing"
    flushRest,      \* flushBuffer's local rest
    sp,             \* the running sendPayload call
    ppc,            \* position of each SendJSON caller
    cpc,            \* position of each Close caller
    ev,             \* history: the SendJSON call that returned in the last step
    accepted,       \* history: payloads enqueued, in enqueue order
    sentLines,      \* history: all lines handed to sendPayload by flushBuffer
    pending,        \* history: payloads given to writeOne since the last buffer Reset
    flushSent,      \* history: pieces handed to sendPayload by the running flushBuffer
    closes,         \* history: <<closes of done, closes of boop>>
    panicked,       \* a runtime panic happened (send on / close of closed channel)
    probe,          \* history: "none", "unacked" or "acked": the connect probe
    lastOutcome,    \* history: the last enqueue outcome: "none", "full", "ok",
                    \* or "okAfterFull" for a success that followed a queue-full
    cutMax,         \* byte level: the maxSize argument of cutPoint
    bytes,          \* byte level: c.buffer.Bytes()
    cutRes,         \* byte level: what a cutPoint(bytes, cutMax) call returned
    fdata,          \* byte level: flushBuffer's local data
    pieces,         \* byte level history: the pieces handed to sendPayload
    failed,         \* byte level history: some sendPayload of this flush failed
    fpc,            \* byte level: position of flushBuffer
    startBytes,     \* byte level history: the buffer when flushBuffer started
    now,            \* FakeClock.now
    tickers,        \* FakeClock.tickers: the registered tickers, in slice order
    fakeTicker,             \* the fakeTicker objects
    callers,        \* the goroutines that use the clock in this run
    kpc,            \* position of each clock caller
    call,           \* each caller's running call: its locals, and in ret
                    \* the result of the caller's last Now()
    lastTick,       \* history: the last tick offered to a ticker channel
    drained         \* history: tickers whose channel was read or stopped
                    \* since the last Sleep began

cfgVars == <<checkConnect, nRetries, urlOk, cap>>
chanVars == <<allowWrite, busy, boop, boopClosed, lastOutcome, accepted>>
doneVars == <<done, doneClosed>>
flushVars == <<flushFrom, flushRest, flushSent, sentLines>>
bufVars == <<buffer, warnedType, pending>>
tickVars == <<tickerOn, tick>>
cutVars == <<cutMax, bytes, cutRes, fdata, pieces, failed, fpc, startBytes>>
clockVars == <<now, tickers, fakeTicker, callers, kpc, call, lastTick, drained>>
clientVars == <<cfgVars, npc, chanVars, doneVars, mu, wg, bufVars, ctxDone,
                tickVars, dpc, runDone, flushVars, sp, ppc, cpc, ev, closes,
                panicked, probe>>
vars == <<cutVars, clockVars, cfgVars, npc, chanVars, doneVars, mu, wg, bufVars, ctxDone, tickVars,
          dpc, runDone, flushVars, sp, ppc, cpc, ev, closes, panicked, probe>>

\* No byte-level call is running
CutIdle ==
    /\ cutMax = maxSize
    /\ bytes = NoBytes
    /\ cutRes = <<>>
    /\ fdata = NoBytes
    /\ pieces = <<>>
    /\ failed = FALSE
    /\ fpc = "none"
    /\ startBytes = NoBytes

\* NewFakeClock: no ticker, nobody calling
FreshClock ==
    /\ now = 0
    /\ tickers = <<>>
    /\ fakeTicker = [i \in TickerIds |-> NewTk]
    /\ kpc = [k \in ClockCallers |-> "idle"]
    /\ call = [k \in ClockCallers |-> NoCall]
    /\ lastTick = NoTick
    /\ drained = {}

\* The clock of the client runs is left alone
ClockIdle == FreshClock /\ callers = {}

SpIdle == [pc |-> "idle", i |-> 0, calls |-> 0, last |-> "none",
           sleeps |-> <<>>, err |-> "nil", ret |-> "nil"]

NoEv == [v |-> 0, ret |-> "none", logged |-> FALSE, prev |-> "none"]

\* The fields of a freshly built client (NewClient, before the options run)
FreshClient ==
    /\ allowWrite = TRUE
    /\ busy = FALSE
    /\ boop = <<>>
    /\ boopClosed = FALSE
    /\ done = "chan"
    /\ doneClosed = FALSE
    /\ mu = "free"
    /\ buffer = <<>>
    /\ warnedType = {}
    /\ tickerOn = FALSE
    /\ tick = FALSE
    /\ runDone = "chan"
    /\ flushFrom = "none"
    /\ flushRest = <<>>
    /\ sp = SpIdle
    /\ ppc = [p \in Producers |-> "idle"]
    /\ cpc = [c \in Closers |-> "idle"]
    /\ ev = NoEv
    /\ accepted = <<>>
    /\ sentLines = <<>>
    /\ pending = <<>>
    /\ flushSent = <<>>
    /\ closes = <<0, 0>>
    /\ panicked = FALSE
    /\ probe = "none"
    /\ lastOutcome = "none"

\* Entry of NewClient, for every option setting WithNumRetries allows
InitNew ==
    /\ checkConnect \in BOOLEAN
    /\ nRetries \in 1..MaxNumRetries
    /\ urlOk \in BOOLEAN
    /\ cap = 0
    /\ npc = "start"
    /\ ctxDone \in BOOLEAN
    /\ wg = 0
    /\ dpc = "none"
    /\ FreshClient
    /\ CutIdle
    /\ ClockIdle

\* NewClient has just returned a client built with WithoutCheckConnect();
\* the Dispatcher goroutine has been started and has not run yet.
Init ==
    /\ checkConnect = FALSE
    /\ nRetries \in 1..MaxRetries
    /\ urlOk = TRUE
    /\ cap = MaxAccepted
    /\ npc = "returned"
    /\ ctxDone = FALSE
    /\ wg = 1
    /\ dpc = "start"
    /\ FreshClient
    /\ CutIdle
    /\ ClockIdle

\* The same client, with fewer events offered
InitLive ==
    /\ checkConnect = FALSE
    /\ nRetries = MaxRetries
    /\ urlOk = TRUE
    /\ cap = LiveAccepted
    /\ npc = "returned"
    /\ ctxDone = FALSE
    /\ wg = 1
    /\ dpc = "start"
    /\ FreshClient
    /\ CutIdle
    /\ ClockIdle

\* The same client, for the runs of the flush timer
InitTimer ==
    /\ checkConnect = FALSE
    /\ nRetries = MaxRetries
    /\ urlOk = TRUE
    /\ cap = TimerAccepted
    /\ npc = "returned"
    /\ ctxDone = FALSE
    /\ wg = 1
    /\ dpc = "start"
    /\ FreshClient
    /\ CutIdle
    /\ ClockIdle

\* ---------------------------------------------------------- sendPayload
\* Entry of sendPayload(data): `var err error` is nil, i = 0; nRetries >= 1
\* so the loop body is entered.
StartSend == [pc |-> "attempt", i |-> 0, calls |-> 0, last |-> "none",
              sleeps |-> <<>>, err |-> "nil", ret |-> "nil"]

\* The error value an attempt's response leaves in the loop-scoped err
AttemptErr(r) == IF r = "neterr" THEN "ErrNet"
                 ELSE IF r = "badbody" THEN "ErrDecode" ELSE "nil"

\* `return err` after the loop.  Inside the loop `req, err := http.NewRequest`
\* declares a new err in the loop body's scope, and httpClient.Do and
\* jsonDecode assign to that one; the function-scope err read here is never
\* assigned.
ExhaustedResult(outerErr, innerErr) == outerErr

\* `continue`: i++ and the loop condition
Continue(s, r) ==
    IF s.i + 1 < nRetries
    THEN [s EXCEPT !.i = s.i + 1, !.pc = "sleep", !.calls = s.calls + 1, !.last = r]
    ELSE [s EXCEPT !.i = s.i + 1, !.pc = "ret", !.calls = s.calls + 1, !.last = r,
                   !.ret = ExhaustedResult(s.err, AttemptErr(r))]

\* ok = false handled like an undecodable body: retry
OnNack_Retries(s, r) == Continue(s, r)

\* A decoded response with ok = false
OnNack(s, r) == [s EXCEPT !.pc = "ret", !.calls = s.calls + 1, !.last = r,
                          !.ret = "ErrSendFailed"]

\* One pass of the loop body from the request to the decoded response r
OnResponse(s, r) ==
    IF r \in {"neterr", "badbody"} THEN Continue(s, r)
    ELSE IF r = "nack" THEN OnNack(s, r)
    ELSE [s EXCEPT !.pc = "ret", !.calls = s.calls + 1, !.last = r, !.ret = "nil"]

Pow2(n) == IF n = 0 THEN 1 ELSE IF n = 1 THEN 2 ELSE IF n = 2 THEN 4
           ELSE IF n = 3 THEN 8 ELSE IF n = 4 THEN 16 ELSE IF n = 5 THEN 32
           ELSE 64

\* A backoff whose exponent is capped one step too early
SleepMs_CapOff(i) ==
    SleepQuantaMs * Pow2(IF i > MaxSleepRetries - 1 THEN MaxSleepRetries - 1 ELSE i)

\* Milliseconds slept before attempt i (i > 0)
SleepMs(i) == SleepQuantaMs * Pow2(IF i > MaxSleepRetries THEN MaxSleepRetries ELSE i)

SendAttempt(r) ==
    /\ sp.pc = "attempt"
    /\ sp' = OnResponse(sp, r)
    /\ probe' = IF npc = "probe" /\ r = "ack" THEN "acked" ELSE probe
    /\ ev' = NoEv
    /\ UNCHANGED <<cutVars, clockVars, cfgVars, npc, chanVars, doneVars, mu, wg, bufVars, ctxDone,
                   tickVars, dpc, runDone, flushVars, ppc, cpc, closes,
                   panicked>>

SendSleep ==
    /\ sp.pc = "sleep"
    /\ sp' = [sp EXCEPT !.pc = "attempt", !.sleeps = Append(sp.sleeps, SleepMs(sp.i))]
    /\ ev' = NoEv
    /\ UNCHANGED <<cutVars, clockVars, cfgVars, npc, chanVars, doneVars, mu, wg, bufVars, ctxDone,
                   tickVars, dpc, runDone, flushVars, ppc, cpc, closes,
                   panicked, probe>>

\* ------------------------------------------------------------ NewClient
\* `ret.wg.Add(1); go ret.run(ctx, ret.done); return ret, nil`
Spawn ==
    /\ wg' = 1
    /\ dpc' = "start"
    /\ npc' = "returned"

NewClientStart ==
    /\ npc = "start"
    /\ IF ~urlOk
       THEN npc' = "failed" /\ UNCHANGED <<wg, dpc, sp, probe>>
       ELSE IF checkConnect
       THEN /\ npc' = "probe"
            /\ sp' = StartSend
            /\ probe' = "unacked"
            /\ UNCHANGED <<wg, dpc>>
       ELSE Spawn /\ UNCHANGED <<sp, probe>>
    /\ UNCHANGED <<cutVars, clockVars, cfgVars, chanVars, doneVars, mu, bufVars, ctxDone, tickVars,
                   runDone, flushVars, ppc, cpc, ev, closes, panicked>>

\* checkConnection returns sendPayload's result to NewClient
NewClientProbeDone ==
    /\ npc = "probe"
    /\ sp.pc = "ret"
    /\ IF sp.ret # "nil"
       THEN npc' = "failed" /\ UNCHANGED <<wg, dpc>>
       ELSE Spawn
    /\ sp' = SpIdle
    /\ UNCHANGED <<cutVars, clockVars, cfgVars, chanVars, doneVars, mu, bufVars, ctxDone, tickVars,
                   runDone, flushVars, ppc, cpc, ev, closes, panicked, probe>>

\* External cancellation of the context handed to NewClient
Cancel ==
    /\ ~ctxDone
    /\ ctxDone' = TRUE
    /\ ev' = NoEv
    /\ UNCHANGED <<cutVars, clockVars, cfgVars, npc, chanVars, doneVars, mu, wg, bufVars, tickVars,
                   dpc, runDone, flushVars, sp, ppc, cpc, closes, panicked,
                   probe>>

\* The clock reaches the ticker's due time: a tick is offered to the
\* capacity-1 ticker channel (dropped when one is already waiting)
Tick ==
    /\ tickerOn
    /\ ~tick
    /\ tick' = TRUE
    /\ ev' = NoEv
    /\ UNCHANGED <<cutVars, clockVars, cfgVars, npc, chanVars, doneVars, mu, wg, bufVars, ctxDone,
                   tickerOn, dpc, runDone, flushVars, sp, ppc, cpc, closes,
                   panicked, probe>>

\* ------------------------------------------------------------- SendJSON
\* What a call stopped by the verbosity test returns
Filtered(v) == [v |-> v, ret |-> "nil", logged |-> FALSE, prev |-> lastOutcome]

\* What a call that passed the verbosity test returns; the only such v
\* in Verbosities is the threshold itself
Returned(r, l) == [v |-> verbosity, ret |-> r, logged |-> l, prev |-> lastOutcome]

\* lastOutcome after a successful enqueue
AfterOk == IF lastOutcome = "full" THEN "okAfterFull" ELSE "ok"

\* The verbosity test written as `v >= c.verbosity`
SendJSONCall_OffByOne(p, v) ==
    /\ npc = "returned"
    /\ ppc[p] = "idle"
    /\ IF v >= verbosity
       THEN /\ ev' = Filtered(v)
            /\ UNCHANGED <<ppc, mu>>
       ELSE /\ Len(accepted) < cap
            /\ mu = "free"
            /\ mu' = p
            /\ ev' = NoEv
            /\ ppc' = [ppc EXCEPT ![p] = "body"]
    /\ UNCHANGED <<cutVars, clockVars, cfgVars, npc, chanVars, doneVars, wg, bufVars, ctxDone,
                   tickVars, dpc, runDone, flushVars, sp, cpc, closes, panicked,
                   probe>>

\* `if v > c.verbosity { return nil }`, else c.mu.Lock() (the step is the
\* return of Lock).  The payload is not read before the channel send, where
\* it is drawn.
SendJSONCall(p, v) ==
    /\ npc = "returned"
    /\ ppc[p] = "idle"
    /\ IF v > verbosity
       THEN /\ ev' = Filtered(v)
            /\ UNCHANGED <<ppc, mu>>
       ELSE /\ Len(accepted) < cap
            /\ mu = "free"
            /\ mu' = p
            /\ ev' = NoEv
            /\ ppc' = [ppc EXCEPT ![p] = "body"]
    /\ UNCHANGED <<cutVars, clockVars, cfgVars, npc, chanVars, doneVars, wg, bufVars, ctxDone,
                   tickVars, dpc, runDone, flushVars, sp, cpc, closes, panicked,
                   probe>>

\* A select whose send case waits for room instead of taking the default
SelectSend_Blocking(d) ==
    /\ ~boopClosed
    /\ Len(boop) < QueueCap
    /\ boop' = Append(boop, d)
    /\ busy' = FALSE
    /\ ev' = Returned("nil", FALSE)
    /\ accepted' = Append(accepted, d)
    /\ lastOutcome' = AfterOk
    /\ UNCHANGED <<allowWrite, boopClosed, panicked>>

\* A select whose send case forgets `c.busy = false`
SelectSend_NoReset(d) ==
    IF Len(boop) < QueueCap
    THEN /\ boop' = Append(boop, d)
         /\ ev' = Returned("nil", FALSE)
         /\ accepted' = Append(accepted, d)
         /\ lastOutcome' = AfterOk
         /\ UNCHANGED <<allowWrite, busy, boopClosed, panicked>>
    ELSE /\ busy' = TRUE
         /\ ev' = Returned("ErrClientBacklogged", ~busy)
         /\ lastOutcome' = "full"
         /\ UNCHANGED <<allowWrite, boop, boopClosed, accepted, panicked>>

\* `select { case c.boop <- data: ... default: ... }` and the return value
SelectSend(d) ==
    IF boopClosed
    THEN \* a send on a closed channel panics
         /\ panicked' = TRUE
         /\ ev' = Returned("panic", FALSE)
         /\ UNCHANGED chanVars
    ELSE IF Len(boop) < QueueCap
    THEN /\ boop' = Append(boop, d)
         /\ busy' = FALSE
         /\ ev' = Returned("nil", FALSE)
         /\ accepted' = Append(accepted, d)
         /\ lastOutcome' = AfterOk
         /\ UNCHANGED <<allowWrite, boopClosed, panicked>>
    ELSE /\ busy' = TRUE
         /\ ev' = Returned("ErrClientBacklogged", ~busy)
         /\ lastOutcome' = "full"
         /\ UNCHANGED <<allowWrite, boop, boopClosed, accepted, panicked>>

\* The locked part of SendJSON(v, d) up to the deferred Unlock
SendJSONBody(p, d) ==
    /\ ppc[p] = "body"
    /\ ppc' = [ppc EXCEPT ![p] = "idle"]
    /\ mu' = "free"
    /\ IF ~allowWrite
       THEN /\ ev' = Returned("ErrClientClosed", FALSE)
            /\ UNCHANGED <<chanVars, panicked>>
       ELSE SelectSend(d)
    /\ UNCHANGED <<cutVars, clockVars, cfgVars, npc, doneVars, wg, bufVars, ctxDone, tickVars, dpc,
                   runDone, flushVars, sp, cpc, closes, probe>>

\* ---------------------------------------------------------------- Close
\* Close is called and its c.mu.Lock() returns
CloseCall(c) ==
    /\ npc = "returned"
    /\ cpc[c] \in {"idle", "returned"}
    /\ mu = "free"
    /\ mu' = c
    /\ cpc' = [cpc EXCEPT ![c] = "body"]
    /\ ev' = NoEv
    /\ UNCHANGED <<cutVars, clockVars, cfgVars, npc, chanVars, doneVars, wg, bufVars, ctxDone,
                   tickVars, dpc, runDone, flushVars, sp, ppc, closes,
                   panicked, probe>>

\* Close without the `c.done != nil` guard: every call closes the channel
CloseBody_Unguarded(c) ==
    /\ cpc[c] = "body"
    /\ done' = "nil"
    /\ doneClosed' = TRUE
    /\ closes' = <<closes[1] + 1, closes[2]>>
    /\ panicked' = (panicked \/ doneClosed)
    /\ mu' = "free"
    /\ cpc' = [cpc EXCEPT ![c] = "wait"]
    /\ ev' = NoEv
    /\ UNCHANGED <<cutVars, clockVars, cfgVars, npc, chanVars, wg, bufVars, ctxDone, tickVars, dpc,
                   runDone, flushVars, sp, ppc, probe>>

\* `if c.done != nil { cl := c.done; c.done = nil; close(cl) }; c.mu.Unlock()`
CloseBody(c) ==
    /\ cpc[c] = "body"
    /\ IF done # "nil"
       THEN /\ done' = "nil"
            /\ doneClosed' = TRUE
            /\ closes' = <<closes[1] + 1, closes[2]>>
            /\ panicked' = (panicked \/ doneClosed)
       ELSE UNCHANGED <<done, doneClosed, closes, panicked>>
    /\ mu' = "free"
    /\ cpc' = [cpc EXCEPT ![c] = "wait"]
    /\ ev' = NoEv
    /\ UNCHANGED <<cutVars, clockVars, cfgVars, npc, chanVars, wg, bufVars, ctxDone, tickVars, dpc,
                   runDone, flushVars, sp, ppc, probe>>

\* c.wg.Wait() returns, and Close returns nil
CloseWait(c) ==
    /\ cpc[c] = "wait"
    /\ wg = 0
    /\ cpc' = [cpc EXCEPT ![c] = "returned"]
    /\ ev' = NoEv
    /\ UNCHANGED <<cutVars, clockVars, cfgVars, npc, chanVars, doneVars, mu, wg, bufVars, ctxDone,
                   tickVars, dpc, runDone, flushVars, sp, ppc, closes,
                   panicked, probe>>

\* ------------------------------------------------- writeOne / warnError
\* warnError: only a type not yet warned about gets the placeholder line
warnError(buf, warned, arg) ==
    IF TypeName(arg) \notin warned
    THEN <<Append(buf, Line("data", TypeName(arg), TRUE)), warned \cup {TypeName(arg)}>>
    ELSE <<buf, warned>>

\* writeOne that puts the new line in front of the buffer
writeOne_Prepend(buf, warned, arg) ==
    IF arg \in Marshalable
    THEN <<(<<Line("data", arg, FALSE)>> \o buf), warned>>
    ELSE warnError(buf, warned, arg)

\* writeOne up to the size test: <<buffer, warnedType>> afterwards.
\* json.Encoder writes nothing when marshalling fails.
writeOne(buf, warned, arg) ==
    IF arg \in Marshalable
    THEN <<Append(buf, Line("data", arg, FALSE)), warned>>
    ELSE warnError(buf, warned, arg)

\* A size test without the margin
NeedsFlush_NoMargin(buf) == BufLen(buf) >= maxSize

\* `if c.buffer.Len() >= c.maxSize-SizeMargin`
NeedsFlush(buf) == BufLen(buf) >= maxSize - SizeMargin

\* ---------------------------------------------------------- flushBuffer
\* A flush that sends one line per request
FlushCut_LineByLine(data) == <<SubSeq(data, 1, 1), Tail(data)>>

\* The piece flushBuffer hands to sendPayload and what it keeps as rest
FlushCut(data) == IF BufLen(data) > maxSize
                  THEN cutPoint(data, maxSize) ELSE <<data, <<>>>>

\* Loop head of flushBuffer with local `data`; buf is c.buffer, from the
\* caller, tk the tick flag, sofar the pieces already handed over, pend the
\* payloads written into buf.
FlushLoop(from, buf, data, sofar, tk, pend) ==
    IF data = <<>>
    THEN \* loop exit, deferred c.buffer.Reset(), back in run()
         /\ buffer' = <<>>
         /\ pending' = <<>>
         /\ flushFrom' = "none"
         /\ flushRest' = <<>>
         /\ flushSent' = <<>>
         /\ sp' = SpIdle
         /\ sentLines' = sentLines
         /\ IF from = "closing"
            THEN \* running = false; deferred tkr.Stop() and c.wg.Done()
                 /\ dpc' = "stopped"
                 /\ tickerOn' = FALSE
                 /\ tick' = FALSE
                 /\ wg' = 0
            ELSE /\ dpc' = "select"
                 /\ tickerOn' = tickerOn
                 /\ tick' = tk
                 /\ wg' = wg
    ELSE /\ buffer' = buf
         /\ pending' = pend
         /\ flushFrom' = from
         /\ flushRest' = FlushCut(data)[2]
         /\ flushSent' = Append(sofar, FlushCut(data)[1])
         /\ sentLines' = sentLines \o FlushCut(data)[1]
         /\ sp' = StartSend
         /\ dpc' = "send"
         /\ tickerOn' = tickerOn
         /\ tick' = tk
         /\ wg' = wg

\* sendPayload returned inside flushBuffer: log on error, data = rest
FlushAfterSend ==
    /\ dpc = "send"
    /\ sp.pc = "ret"
    /\ FlushLoop(flushFrom, buffer, flushRest, flushSent, tick, pending)
    /\ ev' = NoEv
    /\ UNCHANGED <<cutVars, clockVars, cfgVars, npc, chanVars, doneVars, mu, warnedType,
                   ctxDone, runDone, ppc, cpc, closes, panicked, probe>>

\* ------------------------------------------------------------------ run
\* tkr := c.clock.NewTicker(c.interval)
RunStart ==
    /\ dpc = "start"
    /\ cap > 0
    /\ dpc' = "select"
    /\ tickerOn' = TRUE
    /\ ev' = NoEv
    /\ UNCHANGED <<cutVars, clockVars, cfgVars, npc, chanVars, doneVars, mu, wg, bufVars, ctxDone,
                   tick, runDone, flushVars, sp, ppc, cpc, closes, panicked,
                   probe>>

\* case <-ctx.Done(): c.preClose()
RunCtxDone ==
    /\ dpc = "select"
    /\ ctxDone
    /\ dpc' = "preClose"
    /\ ev' = NoEv
    /\ UNCHANGED <<cutVars, clockVars, cfgVars, npc, chanVars, doneVars, mu, wg, bufVars, ctxDone,
                   tickVars, runDone, flushVars, sp, ppc, cpc, closes,
                   panicked, probe>>

\* case <-done: c.preClose(); done = nil
RunDone ==
    /\ dpc = "select"
    /\ runDone = "chan"
    /\ doneClosed
    /\ dpc' = "preClose"
    /\ runDone' = "nil"
    /\ ev' = NoEv
    /\ UNCHANGED <<cutVars, clockVars, cfgVars, npc, chanVars, doneVars, mu, wg, bufVars, ctxDone,
                   tickVars, flushVars, sp, ppc, cpc, closes, panicked,
                   probe>>

\* preClose: c.mu.Lock() returns
PreCloseLock ==
    /\ dpc = "preClose"
    /\ mu = "free"
    /\ mu' = Dispatcher
    /\ dpc' = "preCloseLocked"
    /\ ev' = NoEv
    /\ UNCHANGED <<cutVars, clockVars, cfgVars, npc, chanVars, doneVars, wg, bufVars, ctxDone,
                   tickVars, runDone, flushVars, sp, ppc, cpc, closes,
                   panicked, probe>>

\* preClose that closes the queue but leaves c.allowWrite set
preClose_KeepsAllowWrite ==
    /\ dpc = "preCloseLocked"
    /\ boopClosed' = TRUE
    /\ closes' = <<closes[1], closes[2] + 1>>
    /\ panicked' = (panicked \/ boopClosed)
    /\ mu' = "free"
    /\ dpc' = "select"
    /\ ev' = NoEv
    /\ UNCHANGED <<cutVars, clockVars, cfgVars, npc, allowWrite, busy, boop, lastOutcome, accepted,
                   doneVars, wg, bufVars, ctxDone, tickVars, runDone,
                   flushVars, sp, ppc, cpc, probe>>

\* preClose: `if c.allowWrite { c.allowWrite = false; close(c.boop) }` and Unlock
preClose ==
    /\ dpc = "preCloseLocked"
    /\ IF allowWrite
       THEN /\ allowWrite' = FALSE
            /\ boopClosed' = TRUE
            /\ closes' = <<closes[1], closes[2] + 1>>
            /\ panicked' = (panicked \/ boopClosed)
       ELSE UNCHANGED <<allowWrite, boopClosed, closes, panicked>>
    /\ mu' = "free"
    /\ dpc' = "select"
    /\ ev' = NoEv
    /\ UNCHANGED <<cutVars, clockVars, cfgVars, npc, busy, boop, lastOutcome, accepted,
                   doneVars, wg, bufVars, ctxDone, tickVars, runDone, flushVars,
                   sp, ppc, cpc, probe>>

\* case arg, ok := <-c.boop with ok: c.writeOne(arg)
RunRecv ==
    /\ dpc = "select"
    /\ boop # <<>>
    /\ boop' = Tail(boop)
    /\ LET w == writeOne(buffer, warnedType, Head(boop))
       IN /\ warnedType' = w[2]
          /\ IF NeedsFlush(w[1])
             THEN FlushLoop("writeOne", w[1], w[1], <<>>, tick, Append(pending, Head(boop)))
             ELSE /\ buffer' = w[1]
                  /\ pending' = Append(pending, Head(boop))
                  /\ UNCHANGED <<flushVars, sp, dpc, tickVars, wg>>
    /\ ev' = NoEv
    /\ UNCHANGED <<cutVars, clockVars, cfgVars, npc, allowWrite, busy, boopClosed, lastOutcome,
                   accepted, doneVars, mu, ctxDone, runDone, ppc, cpc,
                   closes, panicked, probe>>

\* case arg, ok := <-c.boop with !ok: closing envelope, flush, running = false
RunRecvClosed ==
    /\ dpc = "select"
    /\ boop = <<>>
    /\ boopClosed
    /\ LET b == Append(buffer, Line("closing", "", FALSE))
       IN FlushLoop("closing", b, b, <<>>, tick, pending)
    /\ ev' = NoEv
    /\ UNCHANGED <<cutVars, clockVars, cfgVars, npc, chanVars, doneVars, mu, warnedType,
                   ctxDone, runDone, ppc, cpc, closes, panicked, probe>>

\* case <-tkr.Chan(): c.flushBuffer()
RunTick ==
    /\ dpc = "select"
    /\ tick
    /\ FlushLoop("tick", buffer, buffer, <<>>, FALSE, pending)
    /\ ev' = NoEv
    /\ UNCHANGED <<cutVars, clockVars, cfgVars, npc, chanVars, doneVars, mu, warnedType,
                   ctxDone, runDone, ppc, cpc, closes, panicked, probe>>

\* ------------------------------------------------- flushBuffer on bytes
\* cutPoint is called on the buffer content with maxSize cutMax
CutCall ==
    /\ fpc = "none"
    /\ cutRes = <<>>
    /\ cutRes' = cutPointBytes(bytes, cutMax)
    /\ UNCHANGED <<cutMax, bytes, fdata, pieces, failed, fpc, startBytes>>
    /\ UNCHANGED <<clockVars, clientVars>>

\* `data := c.buffer.Bytes()`; c.maxSize is never below MinMaxSize
flushBufferStart ==
    /\ fpc = "none"
    /\ cutMax >= MinMaxSize
    /\ fdata' = bytes
    /\ startBytes' = bytes
    /\ fpc' = "loop"
    /\ UNCHANGED <<cutMax, bytes, cutRes, pieces, failed>>
    /\ UNCHANGED <<clockVars, clientVars>>

\* A loop body that forgets the rest of a cut buffer
FlushPiece_DropsRest(data, max) ==
    <<(IF data.len > max THEN cutPointBytes(data, max) ELSE <<data, NoBytes>>)[1], NoBytes>>

\* `if len(data) > c.maxSize { data, rest = cutPoint(data, c.maxSize) }`:
\* <<data, rest>> afterwards
FlushPiece(data, max) ==
    IF data.len > max THEN cutPointBytes(data, max) ELSE <<data, NoBytes>>

\* One pass of the loop body: cut, sendPayload (ok: it returned nil),
\* `data = rest`
flushBufferSend(ok) ==
    /\ fpc = "loop"
    /\ fdata.len > 0
    /\ pieces' = Append(pieces, FlushPiece(fdata, cutMax)[1])
    /\ fdata' = FlushPiece(fdata, cutMax)[2]
    /\ failed' = (failed \/ ~ok)
    /\ UNCHANGED <<cutMax, bytes, cutRes, fpc, startBytes>>
    /\ UNCHANGED <<clockVars, clientVars>>

\* Loop exit and the deferred c.buffer.Reset()
flushBufferReturn ==
    /\ fpc = "loop"
    /\ fdata.len = 0
    /\ bytes' = NoBytes
    /\ fpc' = "done"
    /\ UNCHANGED <<cutMax, cutRes, fdata, pieces, failed, startBytes>>
    /\ UNCHANGED <<clockVars, clientVars>>

\* ------------------------------------------------------------ FakeClock
\* Every critical section of f.mu runs without waiting for anything, so
\* each is one step, taken when the mutex is free.

Min(S) == CHOOSE x \in S : \A y \in S : x <= y

\* A scan that takes the first registered ticker whatever its due time
Earliest_First(ts, t) == IF ts = <<>> THEN 0 ELSE ts[1]

\* The scan of f.tickers in Sleep: the first ticker with the smallest next,
\* 0 when no ticker is registered
Earliest(ts, t) ==
    IF ts = <<>> THEN 0
    ELSE LET m == Min({t[ts[i]].next : i \in 1..Len(ts)})
         IN ts[Min({i \in 1..Len(ts) : t[ts[i]].next = m})]

\* One pass of Sleep's loop under the mutex, for caller k whose call record
\* is cl: return at sleepUntil, or step to the earliest ticker's due time
\* and unlock for the channel send
SleepPass(k, cl) ==
    LET e == Earliest(tickers, fakeTicker)
    IN IF e = 0 \/ fakeTicker[e].next > cl.until
       THEN /\ now' = cl.until
            /\ kpc' = [kpc EXCEPT ![k] = IF cl.op = "Now" THEN "read" ELSE "returned"]
            /\ call' = [call EXCEPT ![k] = [cl EXCEPT !.e = 0, !.n = 0]]
            /\ fakeTicker' = fakeTicker
       ELSE /\ now' = fakeTicker[e].next
            /\ fakeTicker' = [fakeTicker EXCEPT ![e].next = fakeTicker[e].next + fakeTicker[e].d]
            /\ kpc' = [kpc EXCEPT ![k] = "offer"]
            /\ call' = [call EXCEPT ![k] = [cl EXCEPT !.e = e, !.n = fakeTicker[e].next]]

\* Sleep(d) is called: Lock, `sleepUntil := f.now.Add(d)`, first pass
SleepCall(k, d) ==
    /\ k \in callers
    /\ kpc[k] \in {"idle", "returned"}
    /\ now + d <= MaxNow
    /\ SleepPass(k, [NoCall EXCEPT !.op = "Sleep", !.d = d, !.until = now + d,
                                   !.ret = call[k].ret])
    /\ drained' = {}
    /\ UNCHANGED <<tickers, callers, lastTick>>
    /\ UNCHANGED <<cutVars, clientVars>>

\* Now() is called: it starts with f.Sleep(time.Millisecond)
NowCall(k) ==
    /\ k \in callers
    /\ kpc[k] \in {"idle", "returned"}
    /\ now + NowSleep <= MaxNow
    /\ SleepPass(k, [NoCall EXCEPT !.op = "Now", !.d = NowSleep,
                                   !.until = now + NowSleep,
                                   !.ret = call[k].ret])
    /\ drained' = {}
    /\ UNCHANGED <<tickers, callers, lastTick>>
    /\ UNCHANGED <<cutVars, clientVars>>

\* `select { case earliest.c <- n: default: }` with the mutex released
SleepOffer(k) ==
    /\ kpc[k] = "offer"
    /\ fakeTicker' = [fakeTicker EXCEPT ![call[k].e].c = 1]
    /\ lastTick' = [due |-> call[k].n,
                    t |-> call[k].e,
                    max |-> [i \in TickerIds |->
                               IF i = lastTick.t /\ lastTick.due > lastTick.max[i]
                               THEN lastTick.due ELSE lastTick.max[i]]]
    /\ kpc' = [kpc EXCEPT ![k] = "relock"]
    /\ UNCHANGED <<now, tickers, callers, call, drained>>
    /\ UNCHANGED <<cutVars, clientVars>>

\* f.mu.Lock() after the send, and the next pass of the loop
SleepResume(k) ==
    /\ kpc[k] = "relock"
    /\ SleepPass(k, call[k])
    /\ UNCHANGED <<tickers, callers, lastTick, drained>>
    /\ UNCHANGED <<cutVars, clientVars>>

\* Now() after its Sleep: Lock, `return f.now`
NowRead(k) ==
    /\ kpc[k] = "read"
    /\ call' = [call EXCEPT ![k].ret = now]
    /\ kpc' = [kpc EXCEPT ![k] = "returned"]
    /\ UNCHANGED <<now, tickers, fakeTicker, callers, lastTick, drained>>
    /\ UNCHANGED <<cutVars, clientVars>>

\* NewTicker(d), d # 0: a new fakeTicker, due at f.now + d, appended
NewTicker(d) ==
    /\ \E i \in TickerIds : fakeTicker[i].st = "free"
    /\ LET i == Min({j \in TickerIds : fakeTicker[j].st = "free"})
       IN /\ fakeTicker' = [fakeTicker EXCEPT ![i] = [st |-> "on", d |-> d, next |-> now + d, c |-> 0]]
          /\ tickers' = Append(tickers, i)
          /\ drained' = drained \cup {i}
    /\ UNCHANGED <<now, callers, kpc, call, lastTick>>
    /\ UNCHANGED <<cutVars, clientVars>>

\* The sequence ts without its element i
Without(ts, i) == SelectSeq(ts, LAMBDA x : x # i)

\* fakeTicker.Stop(), called once per ticker: removed from f.tickers and
\* a waiting tick drained
Stop(i) ==
    /\ fakeTicker[i].st = "on"
    /\ tickers' = Without(tickers, i)
    /\ fakeTicker' = [fakeTicker EXCEPT ![i] = [NewTk EXCEPT !.st = "stopped"]]
    /\ drained' = drained \cup {i}
    /\ UNCHANGED <<now, callers, kpc, call, lastTick>>
    /\ UNCHANGED <<cutVars, clientVars>>

\* The owner of ticker i receives from its Chan()
Drain(i) ==
    /\ fakeTicker[i].st = "on"
    /\ fakeTicker[i].c = 1
    /\ fakeTicker' = [fakeTicker EXCEPT ![i].c = 0]
    /\ drained' = drained \cup {i}
    /\ UNCHANGED <<now, tickers, callers, kpc, call, lastTick>>
    /\ UNCHANGED <<cutVars, clientVars>>

\* ------------------------------------------------------- specifications
\* Construction: NewClient and its connectivity probe
NextNew ==
    \/ NewClientStart
    \/ NewClientProbeDone
    \/ \E r \in Responses : SendAttempt(r)
    \/ SendSleep

SpecNew == InitNew /\ [][NextNew]_vars

\* Every HTTP attempt and every backoff sleep returns
FairSpecNew ==
    /\ SpecNew
    /\ WF_vars(\E r \in Responses : SendAttempt(r))
    /\ WF_vars(SendSleep)

\* The running client
Next ==
    \/ \E r \in Responses : SendAttempt(r)
    \/ SendSleep
    \/ Cancel
    \/ Tick
    \/ \E p \in Producers, v \in Verbosities : SendJSONCall(p, v)
    \/ \E p \in Producers, d \in Payloads : SendJSONBody(p, d)
    \/ \E c \in Closers : CloseCall(c)
    \/ \E c \in Closers : CloseBody(c)
    \/ \E c \in Closers : CloseWait(c)
    \/ RunStart
    \/ RunCtxDone
    \/ RunDone
    \/ PreCloseLock
    \/ preClose
    \/ RunRecv
    \/ RunRecvClosed
    \/ RunTick
    \/ FlushAfterSend

Spec == Init /\ [][Next]_vars

\* The next step of the Dispatcher goroutine that waits for nothing but
\* the return of an HTTP attempt or of a backoff sleep
DispatcherStep ==
    \/ RunStart
    \/ \E r \in Responses : SendAttempt(r)
    \/ SendSleep
    \/ FlushAfterSend

\* The step of whoever holds c.mu up to its Unlock
HolderStep ==
    \/ \E p \in Producers, d \in Payloads : SendJSONBody(p, d)
    \/ \E c \in Closers : CloseBody(c)
    \/ preClose

\* Scheduling: every goroutine that can take a step eventually does, every
\* HTTP attempt and backoff sleep returns, sync.Mutex hands the lock to a
\* waiter that keeps asking, and select picks each case that is ready again
\* and again.
Fairness ==
    /\ WF_vars(DispatcherStep)
    /\ WF_vars(HolderStep)
    /\ SF_vars(PreCloseLock)
    /\ SF_vars(RunDone)
    /\ SF_vars(RunCtxDone)
    /\ SF_vars(RunRecv)
    /\ SF_vars(RunRecvClosed)
    /\ \A c \in Closers : WF_vars(CloseWait(c))

FairSpec == InitLive /\ [][Next]_vars /\ Fairness

\* The same scheduling, a clock that keeps advancing (a tick is offered
\* whenever the ticker channel is empty), and a select that takes the
\* ticker case again and again
FairTimerSpec ==
    /\ InitTimer
    /\ [][Next]_vars
    /\ Fairness
    /\ WF_vars(Tick)
    /\ SF_vars(RunTick)

\* A client that is not running, for the runs of cutPoint and of the clock
ClientIdle ==
    /\ checkConnect = FALSE
    /\ nRetries = 1
    /\ urlOk = TRUE
    /\ cap = 0
    /\ npc = "start"
    /\ ctxDone = FALSE
    /\ wg = 0
    /\ dpc = "none"
    /\ FreshClient

\* cutPoint and flushBuffer on a buffer given byte by byte
InitCut ==
    /\ cutMax \in CutSizes
    /\ \E len \in CutLens(cutMax) :
          \E nl \in SUBSET CutNewlines(cutMax, len) :
              bytes = [len |-> len, nl |-> nl]
    /\ cutRes = <<>>
    /\ fdata = NoBytes
    /\ pieces = <<>>
    /\ failed = FALSE
    /\ fpc = "none"
    /\ startBytes = NoBytes
    /\ ClientIdle
    /\ ClockIdle

NextCut ==
    \/ CutCall
    \/ flushBufferStart
    \/ \E ok \in BOOLEAN : flushBufferSend(ok)
    \/ flushBufferReturn

SpecCut == InitCut /\ [][NextCut]_vars

\* Every sendPayload call returns, so does flushBuffer's loop body
FairSpecCut ==
    /\ SpecCut
    /\ WF_vars(\E ok \in BOOLEAN : flushBufferSend(ok))
    /\ WF_vars(flushBufferReturn)

\* A FakeClock used by the goroutines in callers
InitClock ==
    /\ FreshClock
    /\ callers = ClockCallers
    /\ CutIdle
    /\ ClientIdle

\* A FakeClock on which one goroutine calls Sleep and Now
InitClock1 ==
    /\ FreshClock
    /\ callers = {"a"}
    /\ CutIdle
    /\ ClientIdle

NextClock ==
    \/ \E k \in ClockCallers, d \in Durations : SleepCall(k, d)
    \/ \E k \in ClockCallers : NowCall(k)
    \/ \E k \in ClockCallers : SleepOffer(k)
    \/ \E k \in ClockCallers : SleepResume(k)
    \/ \E k \in ClockCallers : NowRead(k)
    \/ \E d \in Periods : NewTicker(d)
    \/ \E i \in TickerIds : Stop(i)
    \/ \E i \in TickerIds : Drain(i)

SpecClock == InitClock /\ [][NextClock]_vars

SpecClock1 == InitClock1 /\ [][NextClock]_vars

TypeOK ==
    /\ npc \in {"start", "probe", "returned", "failed"}
    /\ dpc \in {"none", "start", "select", "preClose", "preCloseLocked", "send", "stopped"}
    /\ mu \in {"free", Dispatcher} \cup Producers \cup Closers
    /\ wg \in {0, 1}
    /\ Len(boop) <= QueueCap

\* ------------------------------------------------------ shared notions
\* The step is the return of a SendJSON call that passed the verbosity test
BodyReturns == ev' # NoEv /\ ev'.v <= verbosity

\* The step is the return of a SendJSON call stopped by the verbosity test
FilteredReturns == ev' # NoEv /\ ev'.v > verbosity

\* Whoever holds c.mu can run to its Unlock without waiting for anything
HolderCanUnlock ==
    /\ mu \in Producers => ENABLED (\E d \in Payloads : SendJSONBody(mu, d))
    /\ mu \in Closers => ENABLED CloseBody(mu)
    /\ mu = Dispatcher => ENABLED preClose

\* ------------------------------------------------------------------ C1
\* C1: SendJSON never waits for queue space or for the Dispatcher.  The
\* queue never holds more than QueueCap events; a caller that holds the
\* mutex can always finish its call at once, whatever the queue and the
\* Dispatcher are doing, and a caller waiting for the mutex waits only for a
\* holder that can unlock without waiting (so never for an HTTP attempt or a
\* backoff sleep); a call that finds the queue full on an open client returns
\* ErrClientBacklogged and leaves the queue as it was.
C1_NeverBlocks ==
    /\ [](/\ Len(boop) <= QueueCap
          /\ HolderCanUnlock
          /\ mu = Dispatcher => dpc = "preCloseLocked")
    /\ [][(BodyReturns /\ allowWrite /\ Len(boop) = QueueCap)
             => (ev'.ret = "ErrClientBacklogged" /\ boop' = boop)]_vars

\* A call was turned away with ErrClientBacklogged from a full queue while
\* the Dispatcher was in the middle of a sendPayload
C1_Witness ==
    /\ ev.ret = "ErrClientBacklogged"
    /\ Len(boop) = QueueCap
    /\ dpc = "send"
    /\ sp.pc \in {"attempt", "sleep"}

\* ------------------------------------------------------------------ C2
\* Close may be called any number of times, in turn or concurrently, and
\* mixed with SendJSON and cancellation: nothing panics, the done channel and
\* the backlog queue are each closed at most once, a Close that is past its
\* locked part has closed done exactly once, no Close returns before the
\* Dispatcher has terminated (by then the queue has been closed exactly
\* once), and every Close call returns.
C2_Safe ==
    /\ ~panicked
    /\ closes[1] <= 1
    /\ closes[2] <= 1
    /\ \A c \in Closers :
          /\ cpc[c] \in {"wait", "returned"} => (closes[1] = 1 /\ doneClosed)
          /\ cpc[c] = "returned" => (dpc = "stopped" /\ wg = 0 /\ closes = <<1, 1>>)

\* C2: in every state C2_Safe holds (closed at most once, no Close returns
\* before the Dispatcher has terminated), and every Close call returns.
C2_CloseIdempotent ==
    /\ []C2_Safe
    /\ \A c \in Closers : (cpc[c] \in {"body", "wait"}) ~> (cpc[c] = "returned")

\* Both callers have returned from Close, one of them after the context had
\* been cancelled as well
C2_Witness ==
    /\ \A c \in Closers : cpc[c] = "returned"
    /\ ctxDone
    /\ closes = <<1, 1>>

\* ------------------------------------------------------------------ C3
\* Number of elements of sequence q that satisfy Test
Count(q, Test(_)) == Cardinality({k \in 1..Len(q) : Test(q[k])})

\* Line l is the envelope written for payload e: its data envelope, or the
\* BadType placeholder naming its type
Carries(l, e) ==
    /\ l.act = "data"
    /\ IF e \in Marshalable THEN ~l.bad /\ l.d = e
       ELSE l.bad /\ l.d = TypeName(e)

\* Every accepted payload has an envelope of its own among the lines handed
\* to the Transmitter
AllAcceptedSent ==
    \A e \in Payloads :
        LET IsE(x) == x = e
            ForE(l) == Carries(l, e)
        IN Count(sentLines, ForE) >= Count(accepted, IsE)

\* C3: when the Dispatcher has terminated, the queue and the buffer are
\* empty and every event SendJSON accepted has been included in a batch
\* handed to the Transmitter.
C3_GracefulDrain ==
    dpc = "stopped" =>
        /\ boop = <<>>
        /\ buffer = <<>>
        /\ AllAcceptedSent

\* What does hold at termination: nothing is left in the queue or the
\* buffer, and every accepted payload that serializes was handed over
C3_MarshalableDrained ==
    dpc = "stopped" =>
        /\ boop = <<>>
        /\ buffer = <<>>
        /\ \A e \in Marshalable :
              LET IsE(x) == x = e
                  ForE(l) == Carries(l, e)
              IN Count(sentLines, ForE) = Count(accepted, IsE)

\* After a cancellation or a Close the Dispatcher terminates
C3_Terminates == (ctxDone \/ doneClosed) ~> (dpc = "stopped")

\* ------------------------------------------------------------------ C4
\* C4: once preClose has closed the backlog queue, every SendJSON that takes
\* the mutex returns ErrClientClosed and leaves the queue unchanged, also
\* when the queue is full; no send is ever attempted on the closed channel
\* and nothing is ever appended to it.
C4_NoEnqueueAfterClose ==
    /\ [](~panicked /\ (boopClosed <=> ~allowWrite))
    /\ [][boopClosed => /\ Len(boop') <= Len(boop)
                        /\ accepted' = accepted
                        /\ BodyReturns => (ev'.ret = "ErrClientClosed" /\ boop' = boop)]_vars

\* ErrClientClosed was returned although the closed queue was full
C4_Witness ==
    /\ ev.ret = "ErrClientClosed"
    /\ boopClosed
    /\ Len(boop) = QueueCap

\* ------------------------------------------------------------------ C5
\* C5: a SendJSON whose v exceeds the verbosity threshold returns nil and
\* changes nothing (queue, busy flag, allowWrite, mutex; no warning), in
\* every client state; a SendJSON with v at or below the threshold on an
\* open client whose queue is not full appends its payload at the tail of
\* the queue and returns nil.
C5_VerbosityFilter ==
    [][/\ FilteredReturns =>
            /\ ev'.ret = "nil"
            /\ ~ev'.logged
            /\ UNCHANGED <<chanVars, doneVars, mu, ppc, bufVars, flushVars, sp, dpc>>
       /\ (BodyReturns /\ allowWrite /\ Len(boop) < QueueCap) =>
            /\ ev'.ret = "nil"
            /\ Len(boop') = Len(boop) + 1
            /\ SubSeq(boop', 1, Len(boop)) = boop
            /\ accepted' = Append(accepted, boop'[Len(boop')])
       /\ (ev' # NoEv /\ boop' # boop) => ev'.v <= verbosity]_vars

\* A filtered call returned nil on a client that is already closed
C5_Witness ==
    /\ ev.v > verbosity
    /\ ev.ret = "nil"
    /\ ~allowWrite

\* ------------------------------------------------------------------ C6
\* C6: a queue-full SendJSON on an open client always returns
\* ErrClientBacklogged, and it logs the warning exactly when the previous
\* enqueue outcome (success or queue-full) was not queue-full.
C6_EdgeTriggered ==
    [][/\ (BodyReturns /\ allowWrite /\ Len(boop) = QueueCap)
            => ev'.ret = "ErrClientBacklogged"
       /\ (BodyReturns /\ ev'.ret = "ErrClientBacklogged")
            => (ev'.logged <=> lastOutcome # "full")
       /\ (ev' # NoEv /\ ev'.ret # "ErrClientBacklogged") => ~ev'.logged
       /\ ev' # NoEv => ev'.prev = lastOutcome]_vars

\* The warning was printed a second time: after a logged queue-full call
\* an enqueue succeeded, and the next queue-full call logged again
C6_Witness ==
    /\ ev.ret = "ErrClientBacklogged"
    /\ ev.logged
    /\ ev.prev = "okAfterFull"

\* ------------------------------------------------------------------ C7
\* C7: an attempt that decodes a response with ok = false ends sendPayload
\* at once with ErrSendFailed: no later attempt, no later sleep; on the
\* first attempt that is exactly one HTTP call.
C7_NackTerminal ==
    sp.last = "nack" =>
        /\ sp.pc = "ret"
        /\ sp.ret = "ErrSendFailed"
        /\ sp.calls = Len(sp.sleeps) + 1
        /\ sp.i = 0 => sp.calls = 1

\* ok = false on the first attempt of a call that had retries left
C7_Witness ==
    /\ sp.last = "nack"
    /\ sp.calls = 1
    /\ nRetries > 1
    /\ sp.ret = "ErrSendFailed"

\* ------------------------------------------------------------------ C8
\* C8: when all nRetries attempts fail retryably, sendPayload returns the
\* error of the last attempt, and it returns nil only after an ok = true.
C8_ExhaustionReported ==
    sp.pc = "ret" =>
        /\ (sp.calls = nRetries /\ sp.last \in {"neterr", "badbody"})
              => (sp.ret # "nil" /\ sp.ret = AttemptErr(sp.last))
        /\ sp.ret = "nil" => sp.last = "ack"

\* ------------------------------------------------------------------ C9
\* C9: with the connectivity check on, NewClient returns a handle and starts
\* the Dispatcher only if the probe was acknowledged with ok = true; with the
\* check off no probe request is made.
C9_ProbeFatal ==
    /\ dpc # "none" => npc = "returned"
    /\ npc = "returned" => IF checkConnect THEN probe = "acked" ELSE probe = "none"

\* ------------------------------------------------------------------ C10
AllMarshalable(evs) == \A k \in 1..Len(evs) : evs[k] \in Marshalable

IsData(l) == l.act = "data"

RECURSIVE DataOf(_)
\* The payloads of the data envelopes of a sequence of lines, in order
DataOf(ls) == IF ls = <<>> THEN <<>>
              ELSE IF IsData(Head(ls)) THEN <<Head(ls).d>> \o DataOf(Tail(ls))
              ELSE DataOf(Tail(ls))

BackWindow(data, max) == {i \in data.nl : i <= max /\ 2 * i > max}

\* Indices of the line terminators in the forward window
FwdWindow(data, max) == {i \in data.nl : i >= max /\ i < data.len}

\* cutPoint has something to cut
Cuttable(data, max) == data.len > max /\ max >= 32

\* C11: head followed by tail is the input; for an input longer than
\* maxSize >= 32, head ends with the last terminator of the backward window
\* when there is one, else with a terminator of the forward window (the
\* first) when there is one; in every other case head is the input and tail
\* is empty.  (Until flushBuffer resets the buffer, bytes is the argument
\* the recorded call was given.)
C11_LosslessSplit ==
    (cutRes # <<>> /\ fpc # "done") =>
        LET head == cutRes[1]
            tail == cutRes[2]
            back == BackWindow(bytes, cutMax)
            fwd == FwdWindow(bytes, cutMax)
        IN /\ Concat(head, tail) = bytes
           /\ head = Slice(bytes, 0, head.len)
           /\ tail = Slice(bytes, head.len, bytes.len)
           /\ (Cuttable(bytes, cutMax) /\ back # {}) =>
                 /\ head.len - 1 \in back
                 /\ \A i \in back : i <= head.len - 1
           /\ (Cuttable(bytes, cutMax) /\ back = {} /\ fwd # {}) =>
                 /\ head.len - 1 \in fwd
                 /\ \A i \in fwd : head.len - 1 <= i
           /\ (~Cuttable(bytes, cutMax) \/ (back = {} /\ fwd = {})) =>
                 (head = bytes /\ tail = NoBytes)

\* A cut at the later of two terminators of the backward window, with
\* bytes left over for the tail
C11_Witness ==
    /\ cutRes # <<>>
    /\ cutMax = CutFloor
    /\ Cardinality(BackWindow(bytes, cutMax)) >= 2
    /\ cutRes[2].len > 0
    /\ cutRes[1].len - 1 \in bytes.nl

\* ------------------------------------------------------------------ C12
\* C12: on one FakeClock, whatever Sleep and Now calls run on it, no tick is
\* offered to a ticker channel after a tick with a later due time has been
\* offered to another ticker: the due time of the last tick offered is at
\* least the due time of every tick offered before it to any other ticker.
C12_TicksInDueOrder ==
    \A i \in TickerIds : i # lastTick.t => lastTick.due >= lastTick.max[i]

\* ------------------------------------------------------------------ C13
\* The one goroutine that calls Sleep and Now in the single-caller runs
Sleeper == "a"

\* Sleeper's call has returned
SleepReturned == kpc[Sleeper] = "returned"

\* C13: with a single caller, Sleep(d) called at time T (call.until is
\* T + d, computed at the call) never waits on a ticker channel: the send is
\* always possible at once and the mutex is free when it resumes.  When it
\* has returned the time is exactly T + d, every registered ticker is due
\* strictly later, and every registered ticker of period p <= d whose
\* channel nobody read during the call has a tick waiting.  Each time a
\* ticker's due time is advanced by one period, exactly the tick for the
\* elapsed period is offered to it, and the channel then holds a tick.
\* Time never decreases, and a Now() returns the time its Sleep ended at.
C13_SleepSemantics ==
    /\ [](/\ kpc[Sleeper] = "offer" => ENABLED SleepOffer(Sleeper)
          /\ kpc[Sleeper] = "relock" => ENABLED SleepResume(Sleeper)
          /\ SleepReturned =>
                /\ now = call[Sleeper].until
                /\ \A i \in TickerIds : fakeTicker[i].st = "on" =>
                      /\ fakeTicker[i].next > call[Sleeper].until
                      /\ (i \notin drained /\ fakeTicker[i].d <= call[Sleeper].d)
                            => fakeTicker[i].c = 1
                /\ call[Sleeper].op = "Now" =>
                      (call[Sleeper].ret = call[Sleeper].until /\ call[Sleeper].d = 1))
    /\ [][/\ now' >= now
          /\ \A i \in TickerIds :
                (/\ fakeTicker[i].st = "on"
                 /\ fakeTicker'[i].st = "on"
                 /\ fakeTicker'[i].next # fakeTicker[i].next) =>
                    /\ fakeTicker'[i].next = fakeTicker[i].next + fakeTicker[i].d
                    /\ fakeTicker[i].next <= call'[Sleeper].until
                    /\ now' = fakeTicker[i].next
                    /\ kpc'[Sleeper] = "offer"
                    /\ call'[Sleeper].e = i
                    /\ call'[Sleeper].n = fakeTicker[i].next
          /\ (kpc[Sleeper] = "offer" /\ kpc'[Sleeper] # "offer") =>
                /\ fakeTicker'[call[Sleeper].e].c = 1
                /\ lastTick'.due = call[Sleeper].n]_vars

\* Sleep(3) has returned with two tickers registered, of periods 1 and 2,
\* neither read during the call: each holds one tick, the rest were dropped
C13_Witness ==
    /\ SleepReturned
    /\ call[Sleeper].op = "Sleep"
    /\ call[Sleeper].d = 3
    /\ now = 3
    /\ drained = {}
    /\ \E i, j \in TickerIds :
          /\ fakeTicker[i].st = "on" /\ fakeTicker[i].d = 1 /\ fakeTicker[i].c = 1
          /\ fakeTicker[j].st = "on" /\ fakeTicker[j].d = 2 /\ fakeTicker[j].c = 1
          /\ fakeTicker[i].next = 4 /\ fakeTicker[j].next = 4

\* ------------------------------------------------------------------ C14
\* The n-th accepted event of payload e has an envelope of its own among the
\* lines handed to the Transmitter
Delivered(e, n) ==
    LET ForE(l) == Carries(l, e)
    IN Count(sentLines, ForE) >= n

\* The n-th event of payload e has been accepted
Accepted(e, n) ==
    LET IsE(x) == x = e
    IN Count(accepted, IsE) >= n

\* C14: on a client that is never cancelled and never closed, with the
\* clock advancing and every Transmitter call returning, every accepted
\* event is eventually included in a batch handed to the Transmitter.
C14_TimerDelivers ==
    ([]~(ctxDone \/ doneClosed)) =>
        \A e \in Payloads : \A n \in 1..TimerAccepted :
            Accepted(e, n) ~> Delivered(e, n)

\* What does hold: every accepted event that serializes is delivered
C14_MarshalableDelivered ==
    ([]~(ctxDone \/ doneClosed)) =>
        \A e \in Marshalable : \A n \in 1..TimerAccepted :
            Accepted(e, n) ~> Delivered(e, n)

\* ------------------------------------------------------------------ C15
RECURSIVE ConcatAll(_)
\* The pieces of ps one after the other
ConcatAll(ps) == IF ps = <<>> THEN NoBytes ELSE Concat(Head(ps), ConcatAll(Tail(ps)))

\* C15: during a flush of buffer content B the pieces handed over so far,
\* followed by what is still to be sent, are B, and no piece is empty; when
\* the flush has returned the pieces are exactly B in order, whether or not
\* a transmission failed, and the buffer is empty; an empty B gives no
\* piece; a B without a line terminator before its last byte is one piece,
\* however long; and every flush returns.
C15_FlushPartitions ==
    /\ [](fpc \in {"loop", "done"} =>
            /\ Concat(ConcatAll(pieces), fdata) = startBytes
            /\ \A k \in 1..Len(pieces) : pieces[k].len > 0
            /\ startBytes.len = 0 => pieces = <<>>
            /\ fpc = "done" =>
                  /\ fdata = NoBytes
                  /\ bytes = NoBytes
                  /\ ConcatAll(pieces) = startBytes
                  /\ (startBytes.len > 0 /\ startBytes.nl \subseteq {startBytes.len - 1})
                        => pieces = <<startBytes>>)
    /\ (fpc = "loop") ~> (fpc = "done")

\* A flush has returned after three pieces, one of which failed
C15_Witness ==
    /\ fpc = "done"
    /\ failed
    /\ Len(pieces) >= 3
    /\ bytes = NoBytes

\* ------------------------------------------------------------------ C16
\* The sleeps of one sendPayload call with ten attempts, in milliseconds
BackoffMs == <<500, 1000, 2000, 4000, 8000, 16000, 16000, 16000, 16000>>

\* C16: for every nRetries in 1..10 a sendPayload call makes at least one
\* and at most nRetries attempts, exactly nRetries when every attempt fails
\* retryably, and none after an ok = true, for which it returns nil; attempt
\* 0 is preceded by no sleep and attempt i > 0 by one sleep of
\* 250 * 2^min(i, 6) ms (500, 1000, ..., at most 16000), and nothing else
\* sleeps; the call always returns.
C16_BoundedBackoff ==
    /\ [](sp.pc # "idle" =>
            /\ sp.calls <= nRetries
            /\ sp.pc \in {"attempt", "sleep"} => sp.calls = sp.i
            /\ sp.sleeps = SubSeq(BackoffMs, 1, Len(sp.sleeps))
            /\ \A k \in 1..Len(sp.sleeps) : sp.sleeps[k] <= 16000
            /\ sp.pc = "attempt" => Len(sp.sleeps) = sp.calls
            /\ sp.pc \in {"sleep", "ret"} =>
                  (sp.calls >= 1 /\ Len(sp.sleeps) = sp.calls - 1)
            /\ (sp.pc = "ret" /\ sp.last \in {"neterr", "badbody"}) => sp.calls = nRetries
            /\ sp.pc \in {"attempt", "sleep"} => sp.last \in {"none", "neterr", "badbody"}
            /\ sp.last = "ack" => (sp.pc = "ret" /\ sp.ret = "nil"))
    /\ (sp.pc \in {"attempt", "sleep"}) ~> (sp.pc = "ret")

\* Ten attempts, all failed retryably, with the nine sleeps in between
C16_Witness ==
    /\ nRetries = MaxNumRetries
    /\ sp.pc = "ret"
    /\ sp.calls = MaxNumRetries
    /\ sp.sleeps = BackoffMs
    /\ sp.last \in {"neterr", "badbody"}

\* ------------------------------------------------------------------ C17
IsClosing(l) == l.act = "closing"

RECURSIVE Follows(_, _)
\* The lines ls are envelopes of events of es, line after line in the order
\* of es (events of es may have no line)
Follows(ls, es) ==
    IF ls = <<>> THEN TRUE
    ELSE IF es = <<>> THEN FALSE
    ELSE IF Carries(Head(ls), Head(es)) THEN Follows(Tail(ls), Tail(es))
    ELSE Follows(ls, Tail(es))

\* The events the Dispatcher has taken from the queue, in queue order
Dequeued == SubSeq(accepted, 1, Len(accepted) - Len(boop))

IsMarshalable(d) == d \in Marshalable

Dequeues == dpc = "select" /\ boop # <<>> /\ boop' = Tail(boop)

\* C18: every event the Dispatcher dequeues adds exactly one complete line
\* to the buffer: its data envelope, or, when its payload does not
\* serialize, a placeholder naming its type; the type is then among the
\* warned ones (the warning is printed only when it was not), and the
\* Dispatcher keeps running.
C18_PlaceholderPerFailure ==
    [][Dequeues =>
          /\ Len(buffer') = Len(buffer) + 1
          /\ SubSeq(buffer', 1, Len(buffer)) = buffer
          /\ Carries(buffer'[Len(buffer')], Head(boop))
          /\ warnedType' = IF Head(boop) \in Marshalable THEN warnedType
                           ELSE warnedType \cup {TypeName(Head(boop))}
          /\ dpc' \in {"select", "send"}]_vars

\* What does hold: a payload that does not serialize adds its placeholder
\* when its type was not warned about before and adds nothing otherwise;
\* never a partial line; the Dispatcher keeps running
C18_PlaceholderOncePerType ==
    [][(Dequeues /\ Head(boop) \notin Marshalable) =>
          /\ buffer' = IF TypeName(Head(boop)) \in warnedType THEN buffer
                       ELSE Append(buffer, Line("data", TypeName(Head(boop)), TRUE))
          /\ warnedType' = warnedType \cup {TypeName(Head(boop))}
          /\ dpc' \in {"select", "send"}]_vars

\* ------------------------------------------------------------------ C19
\* C19: whenever the Dispatcher is between two events (at its select, or
\* in preClose), the buffer is shorter than maxSize - SizeMargin: a writeOne
\* that leaves the buffer at or above that size flushes at once, and a
\* flush that returns leaves the buffer empty.
C19_ThresholdFlush ==
    /\ [](dpc \in {"select", "preClose", "preCloseLocked"} =>
            BufLen(buffer) < maxSize - 128)
    /\ [][/\ (Dequeues /\ BufLen(buffer') >= maxSize - 128) =>
                (dpc' = "send" /\ flushFrom' = "writeOne")
          /\ (dpc = "send" /\ dpc' # "send") => buffer' = <<>>]_vars

\* writeOne has started a flush of a buffer that is within the margin:
\* at least maxSize - SizeMargin and less than maxSize bytes
C19_Witness ==
    /\ dpc = "send"
    /\ flushFrom = "writeOne"
    /\ BufLen(buffer) >= maxSize - 128
    /\ BufLen(buffer) < maxSize
    /\ Len(buffer) = 3

\* ------------------------------------------------------------------ C20
\* The step hands a piece of a buffer longer than maxSize to the
\* Transmitter, and a line terminator lay in the backward search window
\* below index maxSize (so that a cut within maxSize bytes exists)
CutsInWindow ==
    /\ fpc = "loop"
    /\ Len(pieces') = Len(pieces) + 1
    /\ fdata.len > cutMax
    /\ \E i \in BackWindow(fdata, cutMax) : i < cutMax

\* C20: in a flush of a buffer longer than maxSize with a line terminator
\* in the backward window, the piece handed to the Transmitter is at most
\* maxSize and more than maxSize/2 bytes long.
C20_PieceWithinMax ==
    [][CutsInWindow =>
          /\ pieces'[Len(pieces')].len <= cutMax
          /\ 2 * pieces'[Len(pieces')].len > cutMax]_vars

\* What does hold: such a piece is at most maxSize + 1 bytes long, and a
\* longer piece is handed over only when the backward window holds no
\* terminator
C20_PieceWithinMaxPlusOne ==
    [][(fpc = "loop" /\ Len(pieces') = Len(pieces) + 1) =>
          /\ CutsInWindow =>
                /\ pieces'[Len(pieces')].len <= cutMax + 1
                /\ 2 * pieces'[Len(pieces')].len > cutMax
          /\ pieces'[Len(pieces')].len > cutMax + 1 =>
                BackWindow(fdata, cutMax) = {}]_vars

\* ------------------------------------------------------------------ C21
\* Caller k's Sleep returns in this step
SleepReturns(k) ==
    /\ call'[k].op = "Sleep"
    /\ kpc'[k] = "returned"
    /\ (kpc[k] # "returned" \/ call'[k] # call[k])

\* Caller k's Now returns in this step
NowReturns(k) == kpc[k] = "read" /\ kpc'[k] = "returned"

\* C21: on a FakeClock used by several goroutines, under every
\* interleaving of Sleep, Now, NewTicker and Stop, the clock's time never
\* decreases, a Sleep(d) returns with the clock at or after its start time
\* plus d, and each Now() of a caller returns a later time than the
\* caller's previous Now().
C21_TimeMonotonic ==
    [][/\ now' >= now
       /\ \A k \in ClockCallers :
             /\ SleepReturns(k) => now' >= call'[k].until
             /\ NowReturns(k) => call'[k].ret > call[k].ret]_vars

====
